---- MODULE Spec2Model ----
(***************************************************************************)
(* Model of search_github.py: the workspace-manifest pipeline of the Kasm   *)
(* community images explorer (block-list filter, reachability checker and   *)
(* its cache, schema normalizer, pullability filter, original-shape         *)
(* projector, and the per-repository loop of parse_repo).                   *)
(*                                                                         *)
(* Text is modelled as a sequence of one-character strings, so that         *)
(* str.startswith, str.strip, str.replace and f-string concatenation are    *)
(* computed character by character.  A JSON scalar is a record              *)
(* [k, s, n]: k is "str", "num", "dict" (a nested object used where a       *)
(* scalar is expected) or "none" (key absent / None).                       *)
(***************************************************************************)
EXTENDS Integers, Sequences, FiniteSets, TLC

VARIABLES
    INSPECTED_IMAGES,   \* the reachability cache: cache key -> BOOLEAN
    STATS,              \* the statistics counters
    op,                 \* name of the operation that acted last ("init" at start)
    arg,                \* the arguments of that operation
    res,                \* what that operation returned / observed
    calls,              \* skopeo_inspect calls made by that operation, in order
    pre,                \* INSPECTED_IMAGES and STATS as they were before it
    seen,               \* history: (image, registry) -> verdict of its first call
    steps,              \* number of operations performed in this run
    world               \* the registries' answers, in a run where they are fixed

vars == <<INSPECTED_IMAGES, STATS, op, arg, res, calls, pre, seen, steps, world>>

(***************************************************************************)
(* Bounds of the model.                                                     *)
(***************************************************************************)
MaxSteps == 2       \* operations per run in Spec
MaxExtra == 1       \* entries a generated compatibility array has past the cap
MaxRepoLen == 2     \* workspace folders of a repository
MaxListLen == 3     \* length of the arrays given to the normalizer and projector

(***************************************************************************)
(* Text.                                                                    *)
(***************************************************************************)
T_kasmweb   == <<"k","a","s","m","w","e","b">>
T_slash     == <<"/">>
T_foo       == <<"f","o","o">>
T_other     == <<"o","t","h","e","r">>
T_sp        == <<" ">>
T_a         == <<"a">>
T_bc        == <<"b","/","c">>
T_abc       == <<"a","/","b","/","c">>
T_aabc      == <<"a","/","a","/","b","/","c">>
T_c         == <<"c">>
T_1         == <<"1">>
T_2         == <<"2">>
T_https     == <<"h","t","t","p","s",":","/","/">>
T_http      == <<"h","t","t","p",":","/","/">>

StartsWith(s, p) == Len(p) <= Len(s) /\ SubSeq(s, 1, Len(p)) = p
EndsWith(s, p) == Len(p) <= Len(s) /\ SubSeq(s, Len(s) - Len(p) + 1, Len(s)) = p

IsSpace(c) == c = " "

RECURSIVE LStrip(_)
LStrip(s) == IF Len(s) > 0 /\ IsSpace(Head(s)) THEN LStrip(Tail(s)) ELSE s

RECURSIVE RStrip(_)
RStrip(s) ==
    IF Len(s) > 0 /\ IsSpace(s[Len(s)]) THEN RStrip(SubSeq(s, 1, Len(s) - 1)) ELSE s

Strip(s) == RStrip(LStrip(s))

\* str.replace(old, new) for a non-empty old: leftmost, non-overlapping.
RECURSIVE Replace(_, _, _)
Replace(s, old, new) ==
    IF Len(s) = 0 THEN <<>>
    ELSE IF StartsWith(s, old)
         THEN new \o Replace(SubSeq(s, Len(old) + 1, Len(s)), old, new)
         ELSE <<Head(s)>> \o Replace(Tail(s), old, new)

(***************************************************************************)
(* JSON scalars and Python truthiness.                                      *)
(***************************************************************************)
Str(s)  == [k |-> "str", s |-> s, n |-> 0]
Num(n)  == [k |-> "num", s |-> <<>>, n |-> n]
None    == [k |-> "none", s |-> <<>>, n |-> 0]
Nested  == [k |-> "dict", s |-> <<>>, n |-> 1]

Truthy(v) ==
    CASE v.k = "str"  -> Len(v.s) > 0
      [] v.k = "num"  -> v.n # 0
      [] v.k = "dict" -> TRUE
      [] OTHER        -> FALSE

(***************************************************************************)
(* should_skip_image                                                        *)
(***************************************************************************)
IMAGE_NAME_PREFIX_FILTERS == { T_kasmweb \o T_slash }

\* A truthy argument that is not text has no strip(): AttributeError.
ShouldSkipRaises(image_name, docker_registry) ==
    \/ Truthy(image_name) /\ image_name.k # "str"
    \/ Truthy(image_name) /\ Truthy(docker_registry) /\ docker_registry.k # "str"

\* Mutation: the registry-qualified candidate is never formed.
CandidatesRawOnly(image_name, docker_registry) == << Strip(image_name.s) >>

\* The list `candidates` of the code, for a non-empty text image name.
Candidates(image_name, docker_registry) ==
    LET img == Strip(image_name.s)
    IN  IF Truthy(docker_registry)
        THEN LET reg == Strip(docker_registry.s)
             IN  IF Len(reg) > 0 /\ ~StartsWith(img, reg \o T_slash)
                 THEN << img, reg \o T_slash \o img >>
                 ELSE << img >>
        ELSE << img >>

should_skip_image(image_name, docker_registry) ==
    IF ~Truthy(image_name) THEN FALSE
    ELSE LET candidates == Candidates(image_name, docker_registry)
         IN  \E i \in 1..Len(candidates) :
                \E prefix \in IMAGE_NAME_PREFIX_FILTERS :
                    StartsWith(candidates[i], prefix)

(***************************************************************************)
(* STATS and the cache.                                                     *)
(***************************************************************************)
STATS0 ==
    [ total_repos |-> 0,
      profanity_filtered_workspaces |-> 0,
      pullable_workspaces |-> 0,
      unpullable_workspaces |-> 0,
      blocked_registry_images |-> 0,
      invalid_registry_urls |-> 0,
      truncated_compatibility_workspaces |-> 0,
      skopeo_timeouts |-> 0,
      cached_image_hits |-> 0 ]

MAX_COMPATIBILITY_ENTRIES == 10

EmptyCache == [x \in {} |-> FALSE]

(***************************************************************************)
(* skopeo_inspect.  The external command is opaque: `w` gives, for every    *)
(* target docker://t, how the invocation ends: "ok" (returncode 0),         *)
(* "fail" (returncode # 0) or "timeout" (TimeoutExpired).                   *)
(***************************************************************************)
Outcomes == {"ok", "fail", "timeout"}
Targets  == { T_bc, T_abc, T_aabc }

\* How the invocation of docker://t ends; a target the registries of the model
\* do not publish fails.
Invoke(w, t) == IF t \in DOMAIN w THEN w[t] ELSE "fail"

CacheKey(image_full_name, docker_registry) ==
    IF Truthy(docker_registry)
    THEN docker_registry.s \o T_slash \o image_full_name.s
    ELSE image_full_name.s

\* Mutation: the cache is never consulted.
CacheHitNever(cache, key) == FALSE

CacheHit(cache, key) == key \in DOMAIN cache

\* Mutation: the registry-qualified retry is also made after a timeout.
RetriesAfterAnyFailure(outcome1, docker_registry) ==
    outcome1 # "ok" /\ Truthy(docker_registry)

\* The second invocation is made inside `if result.returncode != 0`, which a
\* TimeoutExpired raised by the first subprocess.run never reaches.
Retries(outcome1, docker_registry) ==
    outcome1 = "fail" /\ Truthy(docker_registry)

\* Mutation: a failed verdict is not memoized.
MemoizeSuccessOnly(cache, key, verdict) ==
    IF verdict THEN cache @@ (key :> verdict) ELSE cache

Memoize(cache, key, verdict) == (key :> verdict) @@ cache

\* One call.  Returns the new cache and counters, the verdict, and what the call
\* did: hit, the targets invoked with their outcomes, and the cache-hit counter
\* before and after it.
skopeo_inspect(cache, stats, image_full_name, docker_registry, w) ==
    LET cache_key == CacheKey(image_full_name, docker_registry)
        t1 == image_full_name.s
        t2 == docker_registry.s \o T_slash \o image_full_name.s
        base == [ image |-> image_full_name, registry |-> docker_registry,
                  key |-> cache_key ]
    IN  IF CacheHit(cache, cache_key)
        THEN [ cache |-> cache,
               stats |-> [stats EXCEPT !.cached_image_hits = @ + 1],
               ret |-> cache[cache_key],
               call |-> base @@ [ hit |-> TRUE, invoked |-> <<>>, outcomes |-> <<>>,
                                  ret |-> cache[cache_key],
                                  hits |-> << stats.cached_image_hits,
                                              stats.cached_image_hits + 1 >> ] ]
        ELSE LET o1 == Invoke(w, t1)
                 second == Retries(o1, docker_registry)
                 o2 == IF second THEN Invoke(w, t2) ELSE "none"
                 invoked == IF second THEN <<t1, t2>> ELSE <<t1>>
                 outcomes == IF second THEN <<o1, o2>> ELSE <<o1>>
                 verdict == IF second THEN o2 = "ok" ELSE o1 = "ok"
                 timedout == o1 = "timeout" \/ o2 = "timeout"
             IN  [ cache |-> Memoize(cache, cache_key, verdict),
                   stats |-> IF timedout
                             THEN [stats EXCEPT !.skopeo_timeouts = @ + 1]
                             ELSE stats,
                   ret |-> verdict,
                   call |-> base @@ [ hit |-> FALSE, invoked |-> invoked,
                                      outcomes |-> outcomes, ret |-> verdict,
                                      hits |-> << stats.cached_image_hits,
                                                  stats.cached_image_hits >> ] ]

(***************************************************************************)
(* Documents.  A compatibility element is a record [k, s, image, version,   *)
(* uncompressed_size_mb]: k = "dict" for an object (absent keys are None),  *)
(* k = "str" for a bare version string s.  A document is a record; k is     *)
(* "dict" for a JSON object and "list" for any other JSON value; its        *)
(* compatibility is [k, items] with k = "list", "none" (key absent) or      *)
(* "num" (present, a number instead of a sequence).                         *)
(***************************************************************************)
DictEntry(image, version) ==
    [ k |-> "dict", s |-> <<>>, image |-> image, version |-> version,
      uncompressed_size_mb |-> None ]

StrEntry(s) ==
    [ k |-> "str", s |-> s, image |-> None, version |-> None,
      uncompressed_size_mb |-> None ]

\* A compatibility element used as a value (the `version` of a converted entry).
AsValue(element) == IF element.k = "str" THEN Str(element.s) ELSE Nested

List(items) == [ k |-> "list", items |-> items ]
NoList      == [ k |-> "none", items |-> <<>> ]
NotAList    == [ k |-> "num", items |-> <<>> ]

\* dict.get('compatibility', [])
GetCompatibility(doc) ==
    IF doc.compatibility.k = "none" THEN List(<<>>) ELSE doc.compatibility

Doc(name, friendly_name, docker_registry, size, description, compatibility) ==
    [ k |-> "dict", name |-> name, friendly_name |-> friendly_name,
      docker_registry |-> docker_registry, uncompressed_size_mb |-> size,
      description |-> description, compatibility |-> compatibility ]

NonObject == [ Doc(None, None, None, None, None, NoList) EXCEPT !.k = "list" ]

(***************************************************************************)
(* normalize_workspace_json                                                 *)
(***************************************************************************)
IsStructure2(workspace_json) ==
    /\ workspace_json.name.k # "none"
    /\ workspace_json.friendly_name.k # "none"
    /\ LET compatibility == GetCompatibility(workspace_json)
       IN  /\ compatibility.k = "list"
           /\ Len(compatibility.items) > 0
           /\ compatibility.items[1].k = "str"

\* Mutation: every converted entry takes the version of the first element.
ConvertedEntryFirstVersion(compatibility, i, image_name, uncompressed_size) ==
    [ k |-> "dict", s |-> <<>>, image |-> image_name,
      version |-> AsValue(compatibility[1]),
      uncompressed_size_mb |-> uncompressed_size ]

ConvertedEntry(compatibility, i, image_name, uncompressed_size) ==
    [ k |-> "dict", s |-> <<>>, image |-> image_name,
      version |-> AsValue(compatibility[i]),
      uncompressed_size_mb |-> uncompressed_size ]

\* Returns [k |-> "none"] for None, else the one-entry mapping {key: val}.
normalize_workspace_json(workspace_json, folder_name) ==
    IF workspace_json.k # "dict"
    THEN [ k |-> "none", key |-> folder_name, val |-> workspace_json ]
    ELSE IF IsStructure2(workspace_json)
    THEN LET compatibility == workspace_json.compatibility.items
             image_name == workspace_json.name
             uncompressed_size ==
                 IF workspace_json.uncompressed_size_mb.k = "none"
                 THEN Num(0) ELSE workspace_json.uncompressed_size_mb
             converted_compatibility ==
                 [ i \in 1..Len(compatibility) |->
                     ConvertedEntry(compatibility, i, image_name, uncompressed_size) ]
         IN  [ k |-> "map", key |-> folder_name,
               val |-> [workspace_json EXCEPT
                           !.compatibility = List(converted_compatibility)] ]
    ELSE [ k |-> "map", key |-> folder_name, val |-> workspace_json ]

(***************************************************************************)
(* check_profanity_in_workspace.  The detector is an external library; it   *)
(* is modelled as a matcher for the censored words.  The documents of the   *)
(* model carry no `categories` key.                                         *)
(***************************************************************************)
T_bad == <<"b","a","d">>
T_ok  == <<"o","k">>
CENSOR_WORDS == { T_bad }

RECURSIVE Contains(_, _)
Contains(s, sub) ==
    IF Len(s) < Len(sub) THEN FALSE
    ELSE StartsWith(s, sub) \/ Contains(Tail(s), sub)

contains_profanity(field_value) ==
    field_value.k = "str" /\ \E word \in CENSOR_WORDS : Contains(field_value.s, word)

FieldsToCheck(workspace_json, workspace_name) ==
    << Str(workspace_name), workspace_json.friendly_name, workspace_json.description >>

\* Returns [ret, stats]: the counter moves once, at the first offending field.
check_profanity_in_workspace(stats, workspace_json, workspace_name) ==
    LET fields == FieldsToCheck(workspace_json, workspace_name)
        found == \E i \in 1..Len(fields) :
                    Truthy(fields[i]) /\ contains_profanity(fields[i])
    IN  [ ret |-> found,
          stats |-> IF found
                    THEN [stats EXCEPT !.profanity_filtered_workspaces = @ + 1]
                    ELSE stats ]

(***************************************************************************)
(* check_image_pullability                                                  *)
(***************************************************************************)
\* A truthy docker_registry that is not text has no replace(): AttributeError.
RegistryRaises(docker_registry) ==
    Truthy(docker_registry) /\ docker_registry.k # "str"

\* Lines 222-225: strip the scheme, then one trailing slash.
SanitizeRegistry(docker_registry) ==
    IF ~Truthy(docker_registry) THEN docker_registry
    ELSE LET r == Replace(Replace(docker_registry.s, T_https, <<>>), T_http, <<>>)
         IN  Str(IF EndsWith(r, T_slash) THEN SubSeq(r, 1, Len(r) - 1) ELSE r)

\* Mutation: the cap is compared but the array is not cut.
LimitEntriesNoCut(compatibility) == compatibility

\* Lines 235-238: compatibility[:MAX_COMPATIBILITY_ENTRIES]
LimitEntries(compatibility) ==
    IF Len(compatibility) > MAX_COMPATIBILITY_ENTRIES
    THEN SubSeq(compatibility, 1, MAX_COMPATIBILITY_ENTRIES)
    ELSE compatibility

\* Mutation: a blocked image is skipped without being counted.
CountBlockedNever(stats) == stats

CountBlocked(stats) == [stats EXCEPT !.blocked_registry_images = @ + 1]

\* Mutation: the block list is not consulted by the filter.
IsBlockedNever(image, docker_registry) == FALSE

IsBlocked(image, docker_registry) == should_skip_image(image, docker_registry)

\* Lines 273-274.
CountUnpullable(stats, unpullable_count) ==
    IF unpullable_count > 0
    THEN [stats EXCEPT !.unpullable_workspaces = @ + 1]
    ELSE stats

\* The element of a one-element set (used to evaluate a result once).
One(S) == CHOOSE x \in S : TRUE

\* One iteration of the loop of lines 244-266, on entry i.  st.status is "run"
\* while the loop goes on, "none" after `return None`, "raise" after an
\* exception; st.examined is the number of entries the loop has looked at.
PullStep(st, entry, docker_registry, w, i) ==
    LET at == [st EXCEPT !.examined = i]
    IN  IF entry.k # "dict" THEN [at EXCEPT !.status = "none", !.reason = "entry"]
        ELSE IF ~Truthy(entry.image) THEN at
        ELSE IF ShouldSkipRaises(entry.image, docker_registry)
        THEN [at EXCEPT !.status = "raise", !.reason = "image"]
        ELSE IF IsBlocked(entry.image, docker_registry)
        THEN [at EXCEPT !.stats = CountBlocked(@), !.blocked = @ + 1]
        ELSE One({ [at EXCEPT !.cache = r.cache, !.stats = r.stats,
                              !.calls = Append(@, r.call),
                              !.unpullable_count = IF r.ret THEN @ ELSE @ + 1,
                              !.pullable_images =
                                  IF r.ret THEN Append(@, entry) ELSE @] :
                   r \in { skopeo_inspect(st.cache, st.stats, entry.image,
                                          docker_registry, w) } })

RECURSIVE PullLoop(_, _, _, _, _)
PullLoop(st, compatibility, docker_registry, w, i) ==
    IF i > Len(compatibility) \/ st.status # "run" THEN st
    ELSE One({ PullLoop(nx, compatibility, docker_registry, w, i + 1) :
               nx \in { PullStep(st, compatibility[i], docker_registry, w, i) } })

\* A return that counts the manifest as unpullable whenever it is dropped,
\* also when the loop was left early.
PullReturnCountingEveryDrop(st, workspace_json) ==
    IF st.status = "raise" THEN st
    ELSE IF st.status = "run" /\ Len(st.pullable_images) > 0
    THEN [st EXCEPT
            !.status = "ok",
            !.ret = [workspace_json EXCEPT
                        !.compatibility = List(st.pullable_images)],
            !.stats = [@ EXCEPT !.pullable_workspaces = @ + 1]]
    ELSE [st EXCEPT
            !.status = "none",
            !.reason = IF st.status = "run" THEN "nothing pullable" ELSE @,
            !.stats = [@ EXCEPT !.unpullable_workspaces = @ + 1]]

\* Lines 268-275, after the loop has run to its end.
PullReturn(st, workspace_json) ==
    IF st.status # "run" THEN st
    ELSE IF Len(st.pullable_images) > 0
    THEN [st EXCEPT
            !.status = "ok",
            !.ret = [workspace_json EXCEPT
                        !.compatibility = List(st.pullable_images)],
            !.stats = [@ EXCEPT !.pullable_workspaces = @ + 1]]
    ELSE [st EXCEPT
            !.status = "none", !.reason = "nothing pullable",
            !.stats = CountUnpullable(@, st.unpullable_count)]

\* Returns [cache, stats, status, ret, ...]: status "ok" with the filtered
\* manifest in ret, "none" for `return None`, "raise" for an exception.
check_image_pullability(cache, stats, workspace_json, w) ==
    LET st0 == [ cache |-> cache, stats |-> stats, status |-> "run",
                 reason |-> "", ret |-> workspace_json, calls |-> <<>>,
                 registry |-> workspace_json.docker_registry,
                 considered |-> <<>>, examined |-> 0, blocked |-> 0,
                 pullable_images |-> <<>>, unpullable_count |-> 0 ]
    IN  IF RegistryRaises(workspace_json.docker_registry)
        THEN [st0 EXCEPT !.status = "raise", !.reason = "registry"]
        ELSE
        LET compatibility == GetCompatibility(workspace_json)
        IN  IF compatibility.k # "list"
            THEN [st0 EXCEPT !.status = "none", !.reason = "compatibility",
                             !.registry =
                                 SanitizeRegistry(workspace_json.docker_registry)]
            ELSE
            LET stats1 ==
                    IF Len(compatibility.items) > MAX_COMPATIBILITY_ENTRIES
                    THEN [stats EXCEPT !.truncated_compatibility_workspaces = @ + 1]
                    ELSE stats
            IN  One({ PullReturn(st, workspace_json) :
                      st \in { PullLoop([st0 EXCEPT !.stats = stats1,
                                                    !.considered = limited,
                                                    !.registry = docker_registry],
                                        limited, docker_registry, w, 1) :
                               limited \in { LimitEntries(compatibility.items) },
                               docker_registry \in
                                   { SanitizeRegistry(workspace_json.docker_registry) }
                             } })

(***************************************************************************)
(* filter_original_workspace_json                                           *)
(***************************************************************************)
\* {entry.get(key) for entry in pullable_compatibility if entry.get(key)}
PullableImages(pullable_compatibility) ==
    { pullable_compatibility[i].image : i \in
        { j \in 1..Len(pullable_compatibility) :
            Truthy(pullable_compatibility[j].image) } }

PullableVersions(pullable_compatibility) ==
    { pullable_compatibility[i].version : i \in
        { j \in 1..Len(pullable_compatibility) :
            Truthy(pullable_compatibility[j].version) } }

\* entry.get on a string is an AttributeError, a nested object in a set a TypeError.
PullableSetsRaise(pullable_compatibility) ==
    \E i \in 1..Len(pullable_compatibility) :
        \/ pullable_compatibility[i].k # "dict"
        \/ pullable_compatibility[i].image.k = "dict"
        \/ pullable_compatibility[i].version.k = "dict"

\* Old format, line 315: `v in pullable_versions` hashes v.
OldFormatRaises(original_compatibility) ==
    \E i \in 1..Len(original_compatibility) : original_compatibility[i].k # "str"

\* New format, lines 322-325: entry.get on a string, or an unhashable image.
NewFormatRaises(original_compatibility) ==
    \E i \in 1..Len(original_compatibility) :
        \/ original_compatibility[i].k # "dict"
        \/ original_compatibility[i].image.k = "dict"

\* Mutation: the normalized survivors are emitted instead of original elements.
FilteredCompatNormalized(original_compatibility, pullable_compatibility) ==
    pullable_compatibility

\* Lines 312-328, for arrays on which the comprehension does not raise.
FilteredCompat(original_compatibility, pullable_compatibility) ==
    LET pullable_images == PullableImages(pullable_compatibility)
        pullable_versions == PullableVersions(pullable_compatibility)
        KeepOld(v) == Str(v.s) \in pullable_versions
        KeepNew(entry) == entry.image \in pullable_images
    IN  IF original_compatibility[1].k = "str"
        THEN SelectSeq(original_compatibility, KeepOld)
        ELSE SelectSeq(original_compatibility, KeepNew)

\* Line 294: `filtered` is a copy, so the assignments of lines 318 and 328 leave
\* the caller's document as it was.
OriginalAfter(original_workspace_json, filtered_compat) == original_workspace_json

\* pull is [status, ret]: status "ok" when pullable_workspace_json is a manifest,
\* anything else when it is None.  Returns [status, ret, original]: status as
\* before, with "raise" for an exception; original is the caller's document as
\* the call leaves it.
filter_original_workspace_json(original_workspace_json, pull) ==
    LET no == [ status |-> "none", ret |-> original_workspace_json,
                original |-> original_workspace_json ]
        raise == [ status |-> "raise", ret |-> original_workspace_json,
                   original |-> original_workspace_json ]
    IN  IF pull.status # "ok" THEN no
        ELSE
        LET pullable == GetCompatibility(pull.ret)
            original == GetCompatibility(original_workspace_json)
        IN  IF pullable.k # "list" \/ Len(pullable.items) = 0 THEN no
            ELSE IF PullableSetsRaise(pullable.items) THEN raise
            ELSE IF original.k = "num" THEN raise
            ELSE IF Len(original.items) = 0 THEN no
            ELSE IF original.items[1].k = "str" /\ OldFormatRaises(original.items)
            THEN raise
            ELSE IF original.items[1].k # "str" /\ NewFormatRaises(original.items)
            THEN raise
            ELSE
            LET filtered_compat == FilteredCompat(original.items, pullable.items)
            IN  IF Len(filtered_compat) = 0 THEN no
                ELSE [ status |-> "ok",
                       ret |-> [original_workspace_json EXCEPT
                                   !.compatibility = List(filtered_compat)],
                       original |-> OriginalAfter(original_workspace_json,
                                                  filtered_compat) ]

(***************************************************************************)
(* parse_repo, lines 395-466: the loop over the workspace folders.  What    *)
(* the two requests of a folder bring back is the input: a fetched item is  *)
(* [k, folder, doc] with k = "fetch_error" (a status other than 200, no     *)
(* workspace.json, no download URL), "bad_json" (JSONDecodeError) or "doc". *)
(***************************************************************************)
Fetched(k, folder, doc) == [ k |-> k, folder |-> folder, doc |-> doc ]

\* An entry of the workspaces listing whose type is not 'dir' is an item with
\* k = "not_dir"; k = "file_error" is a workspace.json request answered with a
\* status other than 200.  Line 385 keeps the directories.
workspace_folders(items) == SelectSeq(items, LAMBDA item : item.k # "not_dir")

TARGET_BRANCH == <<"1", ".", "1">>

\* What make_request is called with: the URL (the workspaces listing, a
\* folder's listing, a folder's workspace.json) and params (None, or the
\* mapping with the key ref).
T_workspaces == <<"w","o","r","k","s","p","a","c","e","s">>
NoParams == [ k |-> "none", ref |-> <<>> ]
RefParams(branch) == [ k |-> "dict", ref |-> branch ]

\* A folder listing requested without a branch.
FolderRequestDefaultBranch(folder) ==
    [ listing |-> TRUE, url |-> folder, params |-> NoParams ]

\* Line 377 and line 398.
ContentsRequest == [ listing |-> TRUE, url |-> T_workspaces,
                     params |-> RefParams(TARGET_BRANCH) ]
FolderRequest(folder) ==
    [ listing |-> TRUE, url |-> folder, params |-> RefParams(TARGET_BRANCH) ]
\* Line 424: the download, by its URL alone.
FileRequest(folder) ==
    [ listing |-> FALSE, url |-> folder, params |-> NoParams ]

\* The requests of one folder: its listing, then its workspace.json when the
\* listing named one with a download URL.
FolderRequests(item) ==
    IF item.k \in { "doc", "bad_json", "file_error" }
    THEN << FolderRequest(item.folder), FileRequest(item.folder) >>
    ELSE << FolderRequest(item.folder) >>

\* Lines 451-460: the projection of what the pullability filter returned.
ProjectManifest(after, original_workspace_json, pull) ==
    IF pull.status = "raise"
    THEN [after EXCEPT !.status = "raise", !.reason = pull.reason]
    ELSE IF pull.status # "ok"
    THEN [after EXCEPT !.reason = pull.reason]
    ELSE One({ IF filtered.status = "raise"
               THEN [after EXCEPT !.status = "raise", !.reason = "projection"]
               ELSE IF filtered.status # "ok"
               THEN [after EXCEPT !.reason = "projection"]
               ELSE [after EXCEPT !.status = "emitted", !.out = filtered.ret] :
               filtered \in { filter_original_workspace_json(
                                  original_workspace_json, pull) } })

\* Lines 427-460 for one parsed document.
ProcessManifest(cache, stats, original_workspace_json, folder_name, w) ==
    LET base == [ cache |-> cache, stats |-> stats, status |-> "rejected",
                  reason |-> "", calls |-> <<>>, name |-> folder_name,
                  out |-> original_workspace_json ]
        normalized_workspace ==
            normalize_workspace_json(original_workspace_json, folder_name)
    IN  IF normalized_workspace.k = "none" THEN [base EXCEPT !.reason = "format"]
        ELSE
        LET ws_name == normalized_workspace.key
            ws_data == normalized_workspace.val
            prof == check_profanity_in_workspace(stats, ws_data, ws_name)
        IN  IF prof.ret
            THEN [base EXCEPT !.reason = "profanity", !.stats = prof.stats]
            ELSE One({ ProjectManifest(
                           [base EXCEPT !.cache = pull.cache, !.stats = pull.stats,
                                        !.calls = pull.calls],
                           original_workspace_json, pull) :
                       pull \in { check_image_pullability(cache, prof.stats,
                                                          ws_data, w) } })

\* One iteration of the loop over the folders.  st.status is "run", or "raise"
\* once an exception that parse_repo does not catch has left it; st.outcomes
\* holds, per folder handled, what became of it.  An element of workspace_data
\* is the code's {ws_name: filtered} as [name, doc]; `original` records the
\* document it was projected from.
ParseStep(st, item, w) ==
    IF item.k # "doc"
    THEN [st EXCEPT !.outcomes = Append(@, item.k),
                    !.requests = @ \o FolderRequests(item)]
    ELSE One({ [st EXCEPT
                  !.cache = m.cache, !.stats = m.stats,
                  !.requests = @ \o FolderRequests(item),
                  !.calls = @ \o m.calls,
                  !.outcomes = Append(@, m.status),
                  !.status = IF m.status = "raise" THEN "raise" ELSE @,
                  !.workspace_data =
                      IF m.status = "emitted"
                      THEN Append(@, [ name |-> m.name, doc |-> m.out,
                                       original |-> item.doc ])
                      ELSE @] :
               m \in { ProcessManifest(st.cache, st.stats, item.doc,
                                       item.folder, w) } })

RECURSIVE ParseLoop(_, _, _, _)
ParseLoop(st, items, w, i) ==
    IF i > Len(items) \/ st.status # "run" THEN st
    ELSE One({ ParseLoop(nx, items, w, i + 1) :
               nx \in { ParseStep(st, items[i], w) } })

\* status_code is the status of the answer to the workspaces listing, items
\* its content.  Lines 379-391 return [] when the listing failed or names no
\* directory.
parse_repo(cache, stats, status_code, items, w) ==
    LET st0 == [ cache |-> cache, stats |-> stats, status |-> "run",
                 calls |-> <<>>, outcomes |-> <<>>,
                 requests |-> << ContentsRequest >>,
                 workspace_data |-> <<>> ]
    IN  IF status_code # 200 \/ workspace_folders(items) = <<>>
        THEN [st0 EXCEPT !.status = "returned"]
        ELSE One({ IF st.status = "run" THEN [st EXCEPT !.status = "returned"]
                   ELSE st :
                   st \in { ParseLoop(st0, workspace_folders(items), w, 1) } })

(***************************************************************************)
(* Inputs.                                                                  *)
(***************************************************************************)
Pad(e, n) == [ i \in 1..n |-> e ]

SeqsUpTo(S, n) == UNION { [1..m -> S] : m \in 0..n }

eBC     == DictEntry(Str(T_bc), Str(T_1))
eBC2    == DictEntry(Str(T_bc), Str(T_2))
eABC    == DictEntry(Str(T_abc), Str(T_1))
eK      == DictEntry(Str(T_kasmweb \o T_slash \o T_c), Str(T_2))
eNoImg  == DictEntry(None, Str(T_1))
eNumImg == DictEntry(Num(5), Str(T_1))
eStr1   == StrEntry(T_1)
eStr2   == StrEntry(T_2)

R_a       == Str(T_https \o T_a \o T_slash)
R_kasmweb == Str(T_kasmweb)

\* Caches a run can hold when an operation starts: the keys of the images below,
\* each absent, True or False.
WarmKeys   == { T_bc, T_abc }
WarmCaches == UNION { [K -> BOOLEAN] : K \in SUBSET WarmKeys }

Oracles == [Targets -> Outcomes]

InspectImages     == { Str(T_bc), Str(T_abc) }
InspectRegistries == { None, Str(T_a) }

\* Generated compatibility arrays: an optional first element, a run of one
\* repeated entry, an optional last element; lengths from 0 to past the cap.
Heads    == { <<>>, <<eK>>, <<eStr1>>, <<eNoImg>>, <<eABC>> }
Tails    == { <<>>, <<eABC>>, <<eK>>, <<eStr1>>, <<eNumImg>> }
Fillers  == { eBC, eK }
PadSizes == { 0, MAX_COMPATIBILITY_ENTRIES - 2, MAX_COMPATIBILITY_ENTRIES - 1 }
              \cup { MAX_COMPATIBILITY_ENTRIES - 1 + x : x \in 1..MaxExtra }
GenLists ==
    { p \o Pad(f, n) \o q : p \in Heads, q \in Tails, f \in Fillers, n \in PadSizes }

PullRegistries == { None, R_a, R_kasmweb }
PullDocs ==
    { Doc(None, None, reg, None, Str(T_ok), comp) :
        reg \in PullRegistries,
        comp \in { NoList, NotAList } \cup { List(l) : l \in GenLists } }

MainDocs ==
    { Doc(None, None, None, None, Str(T_ok), List(<<eBC, eK>>)),
      Doc(None, None, R_a, None, Str(T_ok),
          List(Pad(eBC, MAX_COMPATIBILITY_ENTRIES) \o <<eABC>>)),
      Doc(None, None, R_kasmweb, None, Str(T_ok), List(<<eBC, eBC2>>)) }

T_w1 == <<"w","1">>
T_w2 == <<"w","2">>
T_w3 == <<"w","3">>
FolderNames == << T_w1, T_w2, T_w3 >>

Full == Pad(eBC, MAX_COMPATIBILITY_ENTRIES)

RepoDocs ==
    { Doc(None, None, None, None, Str(T_ok), List(<<eBC, eK>>)),
      Doc(None, None, R_a, None, Str(T_ok), List(<<eK, eBC, eABC>>)),
      Doc(None, None, None, None, Str(T_ok), List(Full \o <<eStr1>>)),
      Doc(None, None, None, None, Str(T_ok), List(Full \o <<eBC2>>)),
      Doc(None, None, None, None, Str(T_ok), List(<<eBC, eStr1>>)),
      Doc(None, None, None, None, Str(T_ok), NotAList),
      Doc(None, None, None, None, Str(T_bad), List(<<eBC>>)),
      Doc(None, None, Num(5), None, Str(T_ok), List(<<eBC>>)),
      Doc(Str(T_bc), Str(T_ok), None, Num(7), Str(T_ok), List(<<eStr1, eStr2>>)),
      Doc(Str(T_bc), Str(T_ok), None, None, Str(T_ok), List(<<eStr1, eBC>>)),
      Doc(Str(T_bc), Str(T_ok), R_kasmweb, None, Str(T_ok), List(<<eStr1>>)),
      NonObject }

\* What the workspace.json request of a folder can bring back.  The document of
\* an item that is not "doc" is never read.
RepoChoices ==
    { [ k |-> "doc", doc |-> d ] : d \in RepoDocs }
    \cup { [ k |-> "fetch_error", doc |-> NonObject ],
           [ k |-> "bad_json", doc |-> NonObject ] }

\* The fetched items of a repository: folder i of the listing with its choice.
Repos ==
    UNION { { [ i \in 1..m |-> Fetched(c[i].k, FolderNames[i], c[i].doc) ] :
                c \in [1..m -> RepoChoices] } : m \in 1..MaxRepoLen }

RepoCaches == { EmptyCache, [ k \in { T_bc } |-> TRUE ] }

MainRepos ==
    { << Fetched("doc", T_w1, Doc(None, None, None, None, Str(T_ok),
                                  List(<<eBC, eK>>))) >>,
      << Fetched("bad_json", T_w1, NonObject),
         Fetched("doc", T_w2, Doc(Str(T_bc), Str(T_ok), R_a, None, Str(T_ok),
                                  List(<<eStr1, eStr2>>))) >>,
      << Fetched("doc", T_w1, Doc(None, None, None, None, Str(T_ok),
                                  List(Full \o <<eStr1>>))),
         Fetched("fetch_error", T_w2, NonObject) >> }

\* Block-list filter inputs.
T_kfoo == T_kasmweb \o T_slash \o T_foo
SkipImages ==
    { Str(<<>>), Str(T_kfoo), Str(T_foo), Str(T_other \o T_slash \o T_foo),
      Str(T_sp \o T_kfoo), Str(T_kfoo \o T_sp), Str(T_kasmweb), Str(T_sp),
      Str(T_kasmweb \o T_slash), None }
SkipRegistries ==
    { None, Str(<<>>), Str(T_kasmweb), Str(T_sp \o T_kasmweb), Str(T_kasmweb \o T_sp),
      Str(T_other), Str(T_sp), Str(T_kasmweb \o T_slash \o T_kasmweb) }

\* Normalizer inputs.
NormElements == { eStr1, eStr2, eBC }
NormDocs ==
    { NonObject } \cup
    { Doc(name, friendly, None, size, Str(T_ok), comp) :
        name \in { None, Str(T_bc), Str(<<>>) },
        friendly \in { None, Str(T_ok) },
        size \in { None, Num(7) },
        comp \in { NoList, NotAList }
                 \cup { List(l) : l \in SeqsUpTo(NormElements, MaxListLen) } }

\* Projector inputs: an original document and what the pullability filter
\* returned for its normalized form (None, or a manifest with its survivors).
ProjElements == { eStr1, eStr2, eBC, eBC2, eABC }
ProjSurvivors ==
    { eBC, eABC,
      ConvertedEntry(<<eStr1, eStr2>>, 1, Str(T_bc), Num(0)),
      ConvertedEntry(<<eStr1, eStr2>>, 2, Str(T_bc), Num(0)) }
ProjOriginals ==
    { Doc(name, Str(T_ok), None, None, Str(T_ok), List(l)) :
        name \in { None, Str(T_bc) }, l \in SeqsUpTo(ProjElements, MaxListLen) }
ProjPulls(original) ==
    { [ status |-> "none", ret |-> original ] } \cup
    { [ status |-> "ok", ret |-> [original EXCEPT !.compatibility = List(l)] ] :
        l \in SeqsUpTo(ProjSurvivors, 2) }

\* Listing inputs: the answer to the workspaces listing (its status and its
\* entries, directories or not) and what each directory brings back.
StatusCodes == { 200, 404 }
ListingDocs ==
    { Doc(None, None, None, None, Str(T_ok), List(<<eBC>>)),
      Doc(None, None, Num(5), None, Str(T_ok), List(<<eBC>>)),
      NonObject }
ListingChoices ==
    { [ k |-> "doc", doc |-> d ] : d \in ListingDocs }
    \cup { [ k |-> x, doc |-> NonObject ] :
             x \in { "not_dir", "fetch_error", "file_error", "bad_json" } }
Listings ==
    UNION { { [ i \in 1..m |-> Fetched(c[i].k, FolderNames[i], c[i].doc) ] :
                c \in [1..m -> ListingChoices] } : m \in 0..MaxRepoLen }

\* Pipeline inputs: the documents one folder can hold.  Object-array manifests
\* over the generated arrays, version-string manifests of every length around
\* the cap, a manifest with disallowed text and a document that is no object.
StrTails == { <<>>, <<eStr2>>, <<eBC>> }
ManifestDocs ==
    { Doc(None, None, reg, None, Str(T_ok), comp) :
        reg \in { None, R_a },
        comp \in { NoList, NotAList } \cup { List(l) : l \in GenLists } }
    \cup { Doc(Str(T_bc), Str(T_ok), None, Num(7), Str(T_ok),
               List(<<eStr1>> \o Pad(f, n) \o q)) :
             f \in { eStr1, eStr2 }, n \in PadSizes, q \in StrTails }
    \cup { Doc(None, None, None, None, Str(T_bad), List(<<eBC>>)), NonObject }

(***************************************************************************)
(* State machine.                                                           *)
(***************************************************************************)
Pair(call) == << call.image, call.registry >>

\* The history `seen` after the calls log[i..]: a pair keeps its first verdict.
RECURSIVE UpdateSeen(_, _, _)
UpdateSeen(sn, log, i) ==
    IF i > Len(log) THEN sn
    ELSE UpdateSeen(IF Pair(log[i]) \in DOMAIN sn THEN sn
                    ELSE (Pair(log[i]) :> log[i].ret) @@ sn, log, i + 1)

\* `world` of a run in which every call draws the registries' answers anew.
Unfixed == [ t \in {} |-> "fail" ]

StartIn(cache, a, w) ==
    /\ INSPECTED_IMAGES = cache
    /\ STATS = STATS0
    /\ op = "init"
    /\ arg = a
    /\ res = [ status |-> "init" ]
    /\ calls = <<>>
    /\ pre = [ cache |-> cache, stats |-> STATS0, seen |-> << >> ]
    /\ seen = << >>
    /\ steps = 0
    /\ world = w

Start(cache, a) == StartIn(cache, a, Unfixed)

Commit(name, a, r, cache, stats, log) ==
    /\ pre' = [ cache |-> INSPECTED_IMAGES, stats |-> STATS, seen |-> seen ]
    /\ INSPECTED_IMAGES' = cache
    /\ STATS' = stats
    /\ op' = name
    /\ arg' = a
    /\ res' = r
    /\ calls' = log
    /\ seen' = UpdateSeen(seen, log, 1)
    /\ steps' = steps + 1
    /\ world' = world

DoSkopeoInspect(image, registry, w) ==
    \E r \in { skopeo_inspect(INSPECTED_IMAGES, STATS, image, registry, w) } :
        Commit("skopeo_inspect", [ image |-> image, registry |-> registry ],
               [ status |-> "returned", ret |-> r.ret ],
               r.cache, r.stats, << r.call >>)

DoCheckImagePullability(doc, w) ==
    \E r \in { check_image_pullability(INSPECTED_IMAGES, STATS, doc, w) } :
        Commit("check_image_pullability", [ doc |-> doc ], r, r.cache, r.stats, r.calls)

DoParseRepo(status_code, items, w) ==
    \E r \in { parse_repo(INSPECTED_IMAGES, STATS, status_code, items, w) } :
        Commit("parse_repo", [ status_code |-> status_code, items |-> items ],
               r, r.cache, r.stats, r.calls)

\* The run: the module is loaded, then operations follow one another.
Init == Start(EmptyCache, [ none |-> TRUE ])

SkopeoInspect ==
    /\ steps < MaxSteps
    /\ \E image \in InspectImages, registry \in InspectRegistries, w \in Oracles :
          DoSkopeoInspect(image, registry, w)

CheckImagePullability ==
    /\ steps < MaxSteps
    /\ \E doc \in MainDocs, w \in Oracles : DoCheckImagePullability(doc, w)

ParseRepo ==
    /\ steps < MaxSteps
    /\ \E status_code \in StatusCodes, items \in MainRepos, w \in Oracles :
          DoParseRepo(status_code, items, w)

Next == SkopeoInspect \/ CheckImagePullability \/ ParseRepo

Spec == Init /\ [][Next]_vars

\* The pullability filter applied once to each generated manifest, from each
\* cache a run can hold.
InitPull == \E cache \in WarmCaches, doc \in PullDocs : Start(cache, [ doc |-> doc ])

PullOnce == op = "init" /\ \E w \in Oracles : DoCheckImagePullability(arg.doc, w)

SpecPull == InitPull /\ [][PullOnce]_vars

\* parse_repo applied once to each repository.
InitRepo == \E cache \in RepoCaches, items \in Repos : Start(cache, [ items |-> items ])

ParseRepoOnce == op = "init" /\ \E w \in Oracles : DoParseRepo(200, arg.items, w)

SpecRepo == InitRepo /\ [][ParseRepoOnce]_vars

\* The block-list filter applied to each (image, registry).
InitSkip ==
    \E image \in SkipImages, registry \in SkipRegistries :
        Start(EmptyCache, [ image |-> image, registry |-> registry ])

ShouldSkipImage ==
    /\ op = "init"
    /\ ~ShouldSkipRaises(arg.image, arg.registry)
    /\ Commit("should_skip_image", arg,
              [ status |-> "returned",
                ret |-> should_skip_image(arg.image, arg.registry) ],
              INSPECTED_IMAGES, STATS, <<>>)

SpecSkip == InitSkip /\ [][ShouldSkipImage]_vars

\* The normalizer applied to each document.
InitNormalize ==
    \E doc \in NormDocs, folder \in { T_w1, T_w2 } :
        Start(EmptyCache, [ doc |-> doc, folder |-> folder ])

NormalizeWorkspaceJson ==
    /\ op = "init"
    /\ Commit("normalize_workspace_json", arg,
              normalize_workspace_json(arg.doc, arg.folder),
              INSPECTED_IMAGES, STATS, <<>>)

SpecNormalize == InitNormalize /\ [][NormalizeWorkspaceJson]_vars

\* The projector applied to each (original, filtered manifest).
InitProject ==
    \E original \in ProjOriginals :
        \E pull \in ProjPulls(original) :
            Start(EmptyCache, [ original |-> original, pull |-> pull ])

FilterOriginalWorkspaceJson ==
    /\ op = "init"
    /\ Commit("filter_original_workspace_json", arg,
              filter_original_workspace_json(arg.original, arg.pull),
              INSPECTED_IMAGES, STATS, <<>>)

SpecProject == InitProject /\ [][FilterOriginalWorkspaceJson]_vars

\* Reachability checker calls one after another in a run during which the
\* registries answer each target the same way every time.
InitInspect == \E w \in Oracles : StartIn(EmptyCache, [ none |-> TRUE ], w)

SkopeoInspectSameWorld ==
    /\ steps < MaxSteps
    /\ \E image \in InspectImages, registry \in InspectRegistries :
          DoSkopeoInspect(image, registry, world)

SpecInspect == InitInspect /\ [][SkopeoInspectSameWorld]_vars

\* parse_repo applied once to each answer of the workspaces listing.
InitListing ==
    \E status_code \in StatusCodes, items \in Listings :
        Start(EmptyCache, [ status_code |-> status_code, items |-> items ])

ParseRepoListing ==
    op = "init" /\ \E w \in Oracles : DoParseRepo(arg.status_code, arg.items, w)

SpecListing == InitListing /\ [][ParseRepoListing]_vars

\* The pipeline of one folder (normalize, profanity check, pullability filter,
\* projection) applied once to each document.
DoProcessManifest(doc, w) ==
    \E r \in { ProcessManifest(INSPECTED_IMAGES, STATS, doc, T_w1, w) } :
        Commit("process_manifest", [ doc |-> doc ],
               [ status |-> r.status, reason |-> r.reason, name |-> r.name,
                 out |-> r.out ],
               r.cache, r.stats, r.calls)

InitManifest ==
    \E cache \in RepoCaches, doc \in ManifestDocs : Start(cache, [ doc |-> doc ])

ProcessManifestOnce ==
    op = "init" /\ \E w \in Oracles : DoProcessManifest(arg.doc, w)

SpecManifest == InitManifest /\ [][ProcessManifestOnce]_vars

(***************************************************************************)
(* Properties.                                                              *)
(***************************************************************************)
SetMin(S) == CHOOSE x \in S : \A y \in S : x <= y

\* Calls of the last operation made before its i-th with the same pair.
EarlierSame(i) == { j \in 1..(i - 1) : Pair(calls[j]) = Pair(calls[i]) }

\* The i-th call of the last operation is not the first of the run for its pair.
Repeated(i) == Pair(calls[i]) \in DOMAIN pre.seen \/ EarlierSame(i) # {}

FirstVerdict(i) ==
    IF Pair(calls[i]) \in DOMAIN pre.seen
    THEN pre.seen[Pair(calls[i])]
    ELSE calls[SetMin(EarlierSame(i))].ret

SecondTarget(call) == call.registry.s \o T_slash \o call.image.s

\* C1: every call of skopeo_inspect after the first with the same (image,
\* registry) makes no external invocation, adds exactly one to the cache-hit
\* counter and returns the verdict of the first call.
C1_RepeatedPairServedFromCache ==
    \A i \in 1..Len(calls) :
        Repeated(i) =>
            /\ calls[i].hit
            /\ calls[i].invoked = <<>>
            /\ calls[i].hits[2] = calls[i].hits[1] + 1
            /\ calls[i].ret = FirstVerdict(i)

\* A second direct call for a pair whose first verdict was False.
C1_Witness ==
    /\ op = "skopeo_inspect"
    /\ Pair(calls[1]) \in DOMAIN pre.seen
    /\ calls[1].hit
    /\ ~calls[1].ret

\* C2 as claimed: on a miss with a registry, any non-success of the first
\* invocation (failure or timeout) is followed by exactly one invocation of
\* docker://{registry}/{image}; with no registry there is no second invocation.
C2_RetryAfterAnyNonSuccess ==
    \A i \in 1..Len(calls) :
        ~calls[i].hit =>
            /\ calls[i].invoked[1] = calls[i].image.s
            /\ (Truthy(calls[i].registry) /\ calls[i].outcomes[1] # "ok")
                  => /\ Len(calls[i].invoked) = 2
                     /\ calls[i].invoked[2] = SecondTarget(calls[i])
            /\ ~Truthy(calls[i].registry) => Len(calls[i].invoked) = 1

\* C2 amended: on a miss with a registry, a failing result (non-zero exit) of
\* the first invocation is followed by exactly one invocation of
\* docker://{registry}/{image}; after a success or a timeout of the first
\* invocation, or with no registry, there is no second invocation.
C2_RetryAfterFailureOnly ==
    \A i \in 1..Len(calls) :
        ~calls[i].hit =>
            /\ calls[i].invoked[1] = calls[i].image.s
            /\ IF Truthy(calls[i].registry) /\ calls[i].outcomes[1] = "fail"
               THEN /\ Len(calls[i].invoked) = 2
                    /\ calls[i].invoked[2] = SecondTarget(calls[i])
               ELSE Len(calls[i].invoked) = 1

\* A miss with a registry whose first invocation failed and whose second ran.
C2_Witness ==
    \E i \in 1..Len(calls) :
        /\ ~calls[i].hit
        /\ Truthy(calls[i].registry)
        /\ calls[i].outcomes[1] = "fail"
        /\ Len(calls[i].invoked) = 2

\* C3: the cache is append-only and holds every verdict: every entry present
\* before an operation is present and unchanged after it, and the verdict
\* every call returned is the cache's entry for its key.
C3_CacheAppendOnly ==
    /\ \A k \in DOMAIN pre.cache :
          k \in DOMAIN INSPECTED_IMAGES /\ INSPECTED_IMAGES[k] = pre.cache[k]
    /\ \A i \in 1..Len(calls) :
          /\ calls[i].key \in DOMAIN INSPECTED_IMAGES
          /\ INSPECTED_IMAGES[calls[i].key] = calls[i].ret

\* A call that timed out, made when the cache already held an entry.
C3_Witness ==
    /\ DOMAIN pre.cache # {}
    /\ \E i \in 1..Len(calls) :
          /\ calls[i].outcomes = << "timeout" >>
          /\ ~calls[i].ret
          /\ calls[i].key \notin DOMAIN pre.cache

Items(doc) == doc.compatibility.items

\* C4: for a compatibility array longer than the cap the pullability filter
\* iterates over exactly its first 10 entries in order, looks at no entry past
\* the tenth, and adds exactly one to the truncated-compatibility counter; for
\* an array of at most 10 entries it iterates over all of them and leaves that
\* counter unchanged.
C4_TruncationToCap ==
    (op = "check_image_pullability" /\ arg.doc.compatibility.k = "list") =>
        LET items == Items(arg.doc)
            before == pre.stats.truncated_compatibility_workspaces
            after == STATS.truncated_compatibility_workspaces
        IN  IF Len(items) > MAX_COMPATIBILITY_ENTRIES
            THEN /\ res.considered = SubSeq(items, 1, MAX_COMPATIBILITY_ENTRIES)
                 /\ res.examined <= MAX_COMPATIBILITY_ENTRIES
                 /\ \A i \in 1..Len(calls) :
                       \E j \in 1..MAX_COMPATIBILITY_ENTRIES :
                           items[j].image = calls[i].image
                 /\ Len(res.ret.compatibility.items) <= MAX_COMPATIBILITY_ENTRIES
                    \/ res.status # "ok"
                 /\ after = before + 1
            ELSE /\ res.considered = items
                 /\ after = before

\* A manifest with more than 10 entries, the last one with an image none of
\* the first 10 has, that the filter accepted.
C4_Witness ==
    /\ op = "check_image_pullability"
    /\ arg.doc.compatibility.k = "list"
    /\ Len(Items(arg.doc)) > MAX_COMPATIBILITY_ENTRIES
    /\ res.status = "ok"
    /\ res.examined = MAX_COMPATIBILITY_ENTRIES
    /\ \A j \in 1..MAX_COMPATIBILITY_ENTRIES :
          Items(arg.doc)[j].image # Items(arg.doc)[Len(Items(arg.doc))].image

\* Every compatibility entry of the manifest is blocked by the block-list
\* filter under the manifest's sanitized registry.
EveryEntryBlocked(doc) ==
    /\ doc.compatibility.k = "list"
    /\ ~RegistryRaises(doc.docker_registry)
    /\ \A i \in 1..Len(Items(doc)) :
          /\ Items(doc)[i].k = "dict"
          /\ Items(doc)[i].image.k = "str"
          /\ should_skip_image(Items(doc)[i].image,
                               SanitizeRegistry(doc.docker_registry))

FrameOfAllBlocked ==
    /\ res.status = "none"
    /\ STATS.unpullable_workspaces = pre.stats.unpullable_workspaces
    /\ STATS.pullable_workspaces = pre.stats.pullable_workspaces
    /\ calls = <<>>
    /\ INSPECTED_IMAGES = pre.cache

\* C5 as claimed: a manifest whose every entry is blocked is rejected with the
\* unpullable and pullable counters unchanged and no reachability check, and
\* the blocked counter grows by one per blocked entry of the manifest.
C5_BlockedOncePerEntry ==
    (op = "check_image_pullability" /\ EveryEntryBlocked(arg.doc)) =>
        /\ FrameOfAllBlocked
        /\ STATS.blocked_registry_images =
              pre.stats.blocked_registry_images + Len(Items(arg.doc))

\* C5 amended: ... and the blocked counter grows by one per blocked entry among
\* the first 10 entries of the manifest.
C5_BlockedOncePerConsideredEntry ==
    (op = "check_image_pullability" /\ EveryEntryBlocked(arg.doc)) =>
        /\ FrameOfAllBlocked
        /\ STATS.blocked_registry_images =
              pre.stats.blocked_registry_images
              + (IF Len(Items(arg.doc)) > MAX_COMPATIBILITY_ENTRIES
                 THEN MAX_COMPATIBILITY_ENTRIES ELSE Len(Items(arg.doc)))

\* An all-blocked manifest of more than 10 entries, some blocked only through
\* the registry, processed with a warm cache.
C5_Witness ==
    /\ op = "check_image_pullability"
    /\ EveryEntryBlocked(arg.doc)
    /\ Len(Items(arg.doc)) > MAX_COMPATIBILITY_ENTRIES
    /\ \E i \in 1..Len(Items(arg.doc)) : ~should_skip_image(Items(arg.doc)[i].image, None)
    /\ STATS.blocked_registry_images = MAX_COMPATIBILITY_ENTRIES
    /\ DOMAIN pre.cache # {}

\* a is b with some elements left out, the others in b's order.
RECURSIVE IsSubSeqOf(_, _)
IsSubSeqOf(a, b) ==
    IF Len(a) = 0 THEN TRUE
    ELSE IF Len(b) = 0 THEN FALSE
    ELSE IF Head(a) = Head(b) THEN IsSubSeqOf(Tail(a), Tail(b))
    ELSE IsSubSeqOf(a, Tail(b))

\* C6: a document the projector returns has as compatibility an
\* order-preserving sub-list of the original's, made of original elements
\* (version strings for Variant B, entry objects for Variant A) whose version
\* (B) or image (A) is one of a surviving entry; every other top-level field
\* is the original's, and the original document is left as it was.
C6_ProjectionIsSubDocument ==
    (op = "filter_original_workspace_json" /\ res.status = "ok") =>
        LET oc == Items(arg.original)
            fc == Items(res.ret)
            surv == Items(arg.pull.ret)
        IN  /\ res.ret.compatibility.k = "list"
            /\ Len(fc) > 0
            /\ IsSubSeqOf(fc, oc)
            /\ \A i \in 1..Len(fc) :
                  IF oc[1].k = "str"
                  THEN /\ fc[i].k = "str"
                       /\ \E j \in 1..Len(surv) : surv[j].version = Str(fc[i].s)
                  ELSE /\ fc[i].k = "dict"
                       /\ \E j \in 1..Len(surv) : surv[j].image = fc[i].image
            /\ [res.ret EXCEPT !.compatibility = arg.original.compatibility]
                  = arg.original
            /\ res.original = arg.original

\* The round trip of a Variant-A original [b/c, a/b/c] of which only b/c
\* survived: the projection is exactly [b/c].
C6_Witness ==
    /\ op = "filter_original_workspace_json"
    /\ res.status = "ok"
    /\ Items(arg.original) = << eBC, eABC >>
    /\ Items(arg.pull.ret) = << eBC >>
    /\ Items(res.ret) = << eBC >>

\* C7: no emitted manifest surfaces a block-listed image: no entry of an
\* emitted Variant-A manifest has an image the block-list filter flags under
\* the manifest's sanitized docker_registry, and no emitted Variant-B manifest
\* has a flagged top-level image name.
C7_NoBlockedImageEmitted ==
    op = "parse_repo" =>
        \A i \in 1..Len(res.workspace_data) :
            LET d == res.workspace_data[i].doc
                reg == SanitizeRegistry(d.docker_registry)
            IN  IF Items(d)[1].k = "str"
                THEN ~should_skip_image(d.name, reg)
                ELSE \A j \in 1..Len(Items(d)) :
                        ~should_skip_image(Items(d)[j].image, reg)

\* A manifest emitted without the blocked entry its original had.
C7_Witness ==
    /\ op = "parse_repo"
    /\ \E i \in 1..Len(res.workspace_data) :
          LET o == res.workspace_data[i].original
          IN  /\ \E j \in 1..Len(Items(o)) :
                    /\ Items(o)[j].k = "dict"
                    /\ should_skip_image(Items(o)[j].image,
                                         SanitizeRegistry(o.docker_registry))
              /\ Len(Items(res.workspace_data[i].doc)) < Len(Items(o))

FlaggedText(t) == \E prefix \in IMAGE_NAME_PREFIX_FILTERS : StartsWith(t, prefix)

\* C8 as claimed: false for an empty image reference; otherwise true iff some
\* candidate starts with a disallowed prefix, the candidates being the raw image
\* reference and, only when a registry is supplied and the reference does not
\* start with "{registry}/", the reference prefixed with "{registry}/"; and
\* should_skip("kasmweb/foo", None), should_skip("foo", "kasmweb") are true and
\* should_skip("other/foo", "kasmweb") is false.
C8_SkipIffRawCandidateFlagged ==
    op = "should_skip_image" =>
        LET image == arg.image.s
            registry == arg.registry.s
            claimed ==
                { image } \cup
                (IF Truthy(arg.registry) /\ ~StartsWith(image, registry \o T_slash)
                 THEN { registry \o T_slash \o image } ELSE {})
        IN  /\ res.ret = (Truthy(arg.image) /\ \E c \in claimed : FlaggedText(c))
            /\ (arg.image = Str(T_kfoo) /\ arg.registry = None) => res.ret
            /\ (arg.image = Str(T_foo) /\ arg.registry = Str(T_kasmweb)) => res.ret
            /\ (arg.image = Str(T_other \o T_slash \o T_foo)
                /\ arg.registry = Str(T_kasmweb)) => ~res.ret

\* C8 amended: false for an empty image reference; otherwise true iff some
\* candidate starts with a disallowed prefix, the candidates being the image
\* reference with surrounding whitespace stripped and, only when the registry
\* is non-empty after stripping and the stripped reference does not start with
\* "{stripped registry}/", the stripped reference prefixed with it; and
\* should_skip("kasmweb/foo", None), should_skip("foo", "kasmweb") and
\* should_skip("other/foo", "kasmweb") are all true (the last through the
\* candidate "kasmweb/other/foo").
C8_SkipIffStrippedCandidateFlagged ==
    op = "should_skip_image" =>
        LET image == Strip(arg.image.s)
            registry == Strip(arg.registry.s)
            stripped ==
                { image } \cup
                (IF Truthy(arg.registry) /\ registry # <<>>
                    /\ ~StartsWith(image, registry \o T_slash)
                 THEN { registry \o T_slash \o image } ELSE {})
        IN  /\ res.ret = (Truthy(arg.image) /\ \E c \in stripped : FlaggedText(c))
            /\ (arg.image = Str(T_kfoo) /\ arg.registry = None) => res.ret
            /\ (arg.image = Str(T_foo) /\ arg.registry = Str(T_kasmweb)) => res.ret
            /\ (arg.image = Str(T_other \o T_slash \o T_foo)
                /\ arg.registry = Str(T_kasmweb)) => res.ret

\* An image flagged only once its leading blank is stripped.
C8_Witness ==
    /\ op = "should_skip_image"
    /\ arg.image = Str(T_sp \o T_kfoo)
    /\ arg.registry = None
    /\ res.ret

\* C9: for a document detected as Variant B the result maps the fallback name
\* to the manifest with a compatibility of the source array's length whose
\* i-th entry has the i-th source element as version, the top-level name as
\* image and the top-level size (0 when the document has none) as
\* uncompressed_size_mb, every other field being the document's.
C9_VariantBConversion ==
    ( /\ op = "normalize_workspace_json"
      /\ arg.doc.k = "dict"
      /\ arg.doc.name.k # "none"
      /\ arg.doc.friendly_name.k # "none"
      /\ arg.doc.compatibility.k = "list"
      /\ Len(Items(arg.doc)) > 0
      /\ Items(arg.doc)[1].k = "str" ) =>
        LET src == Items(arg.doc)
            size == IF arg.doc.uncompressed_size_mb.k = "none"
                    THEN Num(0) ELSE arg.doc.uncompressed_size_mb
        IN  /\ res.k = "map"
            /\ res.key = arg.folder
            /\ res.val.compatibility.k = "list"
            /\ Len(Items(res.val)) = Len(src)
            /\ \A i \in 1..Len(src) :
                  /\ Items(res.val)[i].k = "dict"
                  /\ Items(res.val)[i].version = AsValue(src[i])
                  /\ Items(res.val)[i].image = arg.doc.name
                  /\ Items(res.val)[i].uncompressed_size_mb = size
            /\ [res.val EXCEPT !.compatibility = arg.doc.compatibility] = arg.doc

\* A Variant-B document with two different versions and a top-level size.
C9_Witness ==
    /\ op = "normalize_workspace_json"
    /\ arg.doc.name = Str(T_bc)
    /\ arg.doc.friendly_name.k # "none"
    /\ arg.doc.uncompressed_size_mb.k = "num"
    /\ arg.doc.compatibility = List(<< eStr1, eStr2 >>)
    /\ res.k = "map"
    /\ Items(res.val)[2].version = Str(T_2)
    /\ Items(res.val)[2].image = Str(T_bc)

\* C10: whatever the fetched documents hold, parse_repo rejects or emits each
\* of them, goes on to every later one, and returns.
C10_EveryRejectionIsLocal ==
    op = "parse_repo" =>
        /\ res.status = "returned"
        /\ Len(res.outcomes) = Len(arg.items)

\* The reasons for which the pipeline drops a document as malformed: it is no
\* object ("format"), its compatibility is no sequence ("compatibility"), or
\* an entry the pullability loop reaches is no record ("entry").
StructuralReasons == { "format", "compatibility", "entry" }

StructurallyRejected ==
    op = "process_manifest" /\ res.status = "rejected"
                            /\ res.reason \in StructuralReasons

\* The counters only the verdict on a whole manifest moves.
VerdictCounters ==
    { "total_repos", "profanity_filtered_workspaces", "pullable_workspaces",
      "unpullable_workspaces", "invalid_registry_urls" }

\* The number of entries before the first one that is no record.
RECURSIVE RecordsBefore(_, _)
RecordsBefore(items, i) ==
    IF i > Len(items) \/ items[i].k # "dict" THEN i - 1
    ELSE RecordsBefore(items, i + 1)

ListingRequests == SelectSeq(res.requests, LAMBDA q : q.listing)

\* C12: every directory-listing request parse_repo issues (the workspaces
\* folder and each workspace subfolder) carries the parameter ref equal to the
\* target branch, none is made against another branch or without one, and a
\* repository with one workspace folder gets at least two such requests.
C12_ListingsUseTargetBranch ==
    op = "parse_repo" =>
        /\ \A i \in 1..Len(ListingRequests) :
              ListingRequests[i].params = RefParams(TARGET_BRANCH)
        /\ Len(ListingRequests) >= 1
        /\ ListingRequests[1].url = T_workspaces
        /\ (arg.status_code = 200 /\ Len(workspace_folders(arg.items)) = 1)
              => /\ Len(ListingRequests) >= 2
                 /\ ListingRequests[2].url = workspace_folders(arg.items)[1].folder

\* A repository whose workspaces listing names one directory and one other
\* entry, the directory's manifest being emitted.
C12_Witness ==
    /\ op = "parse_repo"
    /\ arg.status_code = 200
    /\ Len(arg.items) = 2
    /\ Len(workspace_folders(arg.items)) = 1
    /\ Len(res.workspace_data) = 1
    /\ Len(ListingRequests) = 2
    /\ Len(res.requests) = 3

\* The verdict of a check of the pair made with nothing cached.
UncachedVerdict(image, registry) ==
    skopeo_inspect(EmptyCache, STATS0, image, registry, world).ret

\* C13: while the registries answer each target the same way, the verdict a
\* call returns for its (image, registry), computed or served from the cache,
\* is the verdict an uncached check of that pair returns; a pair never gets
\* the verdict of another pair that has the same cache key.
C13_VerdictEqualsUncachedCheck ==
    op = "skopeo_inspect" =>
        \A i \in 1..Len(calls) :
            calls[i].ret = UncachedVerdict(calls[i].image, calls[i].registry)

\* The entries of the original array the pullability filter considered.
ConsideredPrefix(doc) ==
    SubSeq(Items(doc), 1, IF Len(Items(doc)) > MAX_COMPATIBILITY_ENTRIES
                          THEN MAX_COMPATIBILITY_ENTRIES ELSE Len(Items(doc)))

\* C14: a manifest the full pipeline emits has at most 10 compatibility
\* entries, and its entries are entries of the first 10 positions of the
\* original array, the ones the pullability filter considered.
C14_EmittedWithinCap ==
    (op = "process_manifest" /\ res.status = "emitted") =>
        /\ Len(Items(res.out)) <= MAX_COMPATIBILITY_ENTRIES
        /\ IsSubSeqOf(Items(res.out), ConsideredPrefix(arg.doc))

====
